---------------------------- MODULE Spec2Model ----------------------------
(***************************************************************************)
(* A model of app.py, the "YouTube Outlier Video Search" Streamlit app:    *)
(* the SQLite cache and session log, the duration parser, the outlier      *)
(* score, the video classifier, the batched YouTube API calls and the      *)
(* Search handler of show_search_page.                                     *)
(*                                                                         *)
(* Python text (str) taken apart by the code (durations, numeric strings)  *)
(* is a sequence of one-character strings; text only compared or joined    *)
(* (identifiers, the cache key) is a TLA+ string.  A Python dict is a      *)
(* function whose DOMAIN is the set of keys present.  json.dumps output is *)
(* a sequence of tokens.                                                   *)
(***************************************************************************)
EXTENDS Integers, Sequences, FiniteSets, TLC

VARIABLES
    cache,          \* table cache(key PRIMARY KEY, data): a set of rows
    sessions,       \* table sessions(id AUTOINCREMENT, key, data): rows in insertion order
    session_state,  \* st.session_state: page, results, selected_video
    run,            \* what the last script run did (key, outcome, provider calls, display)
    last_put,       \* history: per key, the data of the latest set_cache call
    arg,            \* the arguments of the function call under examination
    ret             \* what that call returned

vars == <<cache, sessions, session_state, run, last_put, arg, ret>>

None == [none |-> TRUE]

Max(a, b) == IF a >= b THEN a ELSE b

Range(s) == {s[i] : i \in 1..Len(s)}

(***************************************************************************)
(* Python's int(str) on a string of decimal digits.                        *)
(***************************************************************************)
Digits == {"0", "1", "2", "3", "4", "5", "6", "7", "8", "9"}

DigitVal(c) ==
    CASE c = "0" -> 0 [] c = "1" -> 1 [] c = "2" -> 2 [] c = "3" -> 3
      [] c = "4" -> 4 [] c = "5" -> 5 [] c = "6" -> 6 [] c = "7" -> 7
      [] c = "8" -> 8 [] c = "9" -> 9

IsNumeric(s) == Len(s) > 0 /\ \A i \in 1..Len(s) : s[i] \in Digits

RECURSIVE IntOf(_)
IntOf(s) == IF s = <<>> THEN 0
            ELSE 10 * IntOf(SubSeq(s, 1, Len(s) - 1)) + DigitVal(s[Len(s)])

(***************************************************************************)
(* isodate.parse_duration followed by int(td.total_seconds()), for the     *)
(* integer designator grammar P[nY][nM][nW][nD][T[nH][nM][nS]].  Years and *)
(* months are no part of the timedelta and count 0 seconds.  ScanDuration  *)
(* yields -1 where isodate raises.                                         *)
(***************************************************************************)
DateRank(c) == CASE c = "Y" -> 1 [] c = "M" -> 2 [] c = "W" -> 3 [] c = "D" -> 4
                 [] OTHER -> 0

TimeRank(c) == CASE c = "H" -> 5 [] c = "M" -> 6 [] c = "S" -> 7 [] OTHER -> 0

UnitSeconds(rank) ==
    CASE rank = 1 -> 0 [] rank = 2 -> 0 [] rank = 3 -> 604800 [] rank = 4 -> 86400
      [] rank = 5 -> 3600 [] rank = 6 -> 60 [] rank = 7 -> 1

RECURSIVE ScanDuration(_, _, _, _, _, _, _)
ScanDuration(s, i, stage, inTime, num, hasNum, total) ==
    IF i > Len(s) THEN (IF hasNum THEN -1 ELSE total)
    ELSE LET c == s[i]
             rank == IF inTime THEN TimeRank(c) ELSE DateRank(c)
         IN  IF c \in Digits
                 THEN ScanDuration(s, i + 1, stage, inTime,
                                   10 * num + DigitVal(c), TRUE, total)
             ELSE IF c = "T"
                 THEN IF hasNum \/ inTime THEN -1
                      ELSE ScanDuration(s, i + 1, Max(stage, 4), TRUE, 0, FALSE, total)
             ELSE IF rank > stage /\ hasNum
                 THEN ScanDuration(s, i + 1, rank, inTime, 0, FALSE,
                                   total + num * UnitSeconds(rank))
             ELSE -1

parse_duration(duration) ==
    LET secs == IF Len(duration) >= 2 /\ duration[1] = "P"
                THEN ScanDuration(duration, 2, 0, FALSE, 0, FALSE, 0)
                ELSE -1
    IN  IF secs >= 0 THEN secs ELSE 0

(***************************************************************************)
(* dict.get(key, default)                                                  *)
(***************************************************************************)
Get(d, k, default) == IF k \in DOMAIN d THEN d[k] ELSE default

EmptyDict == <<>>

PT0S == <<"P", "T", "0", "S">>

ShortsLimit == 60

DurationOf(video) == Get(Get(video, "contentDetails", EmptyDict), "duration", PT0S)

\* the comparison with < in place of <=: a video of exactly 60 seconds is regular
IsShortBelow(video) == parse_duration(DurationOf(video)) < ShortsLimit

IsShort(video) == parse_duration(DurationOf(video)) <= ShortsLimit

(***************************************************************************)
(* classify_videos: one pass over the input, appending to one of two lists *)
(***************************************************************************)
RECURSIVE ClassifyLoop(_, _, _)
ClassifyLoop(videos, regular_videos, shorts) ==
    IF videos = <<>> THEN [regular |-> regular_videos, shorts |-> shorts]
    ELSE IF IsShort(Head(videos))
        THEN ClassifyLoop(Tail(videos), regular_videos, Append(shorts, Head(videos)))
        ELSE ClassifyLoop(Tail(videos), Append(regular_videos, Head(videos)), shorts)

classify_videos(videos) == ClassifyLoop(videos, <<>>, <<>>)


(***************************************************************************)
(* Provider payloads.  A video detail record as videos().list returns it   *)
(* (title and thumbnails, which only the display reads, are left out); a   *)
(* field the provider omits is absent from the dict.                       *)
(***************************************************************************)
Absent == <<"<absent>">>

Video(id, channelId, viewCount, duration) ==
    [id |-> id, snippet |-> [channelId |-> channelId]]
        @@ (IF viewCount = Absent THEN EmptyDict
            ELSE [statistics |-> [viewCount |-> viewCount]])
        @@ (IF duration = Absent THEN EmptyDict
            ELSE [contentDetails |-> [duration |-> duration]])

VideoIds == <<"v1", "v2", "v3", "v4", "v5">>

DurationTexts ==
    { Absent, <<>>, <<"g", "a", "r", "b", "a", "g", "e">>,
      <<"P", "T", "6", "0", "S">>, <<"P", "T", "6", "1", "S">>,
      <<"P", "T", "1", "M">>, <<"P", "T", "1", "M", "1", "S">>,
      <<"P", "T", "1", "H", "2", "M", "1", "0", "S">> }

MaxVideos == 3

UnsetVars ==
    /\ cache = {}
    /\ sessions = <<>>
    /\ session_state = [page |-> "search", results |-> None, selected_video |-> None]
    /\ run = None
    /\ last_put = None

(***************************************************************************)
(* classify_videos applied to every list of up to MaxVideos videos.        *)
(***************************************************************************)
InitClassify ==
    /\ UnsetVars
    /\ \E n \in 0..MaxVideos :
         \E d \in [1..n -> DurationTexts] :
            arg = [i \in 1..n |-> Video(VideoIds[i], "c1", <<"1">>, d[i])]
    /\ ret = None

CallClassify ==
    /\ ret = None
    /\ ret' = classify_videos(arg)
    /\ UNCHANGED <<cache, sessions, session_state, run, last_put, arg>>

SpecClassify == InitClassify /\ [][CallClassify]_vars

(***************************************************************************)
(* C8: classify_videos is a stable partition by the 60-second threshold:   *)
(* shorts holds exactly the input videos whose duration is at most 60      *)
(* seconds (a missing or unparsable duration counting as 0), regular the   *)
(* others, each in input order, and every video is in exactly one bucket.  *)
(* The expected seconds of each input text are written out here.           *)
(***************************************************************************)
ExpectedSeconds(d) ==
    CASE d = <<"P", "T", "6", "0", "S">> -> 60
      [] d = <<"P", "T", "6", "1", "S">> -> 61
      [] d = <<"P", "T", "1", "M">> -> 60
      [] d = <<"P", "T", "1", "M", "1", "S">> -> 61
      [] d = <<"P", "T", "1", "H", "2", "M", "1", "0", "S">> -> 3730
      [] OTHER -> 0

ExpectedShort(v) ==
    \/ "contentDetails" \notin DOMAIN v
    \/ ExpectedSeconds(v.contentDetails.duration) <= 60

ExpectedRegular(v) == ~ExpectedShort(v)

C8_StablePartition ==
    ret # None =>
        /\ ret.shorts = SelectSeq(arg, ExpectedShort)
        /\ ret.regular = SelectSeq(arg, ExpectedRegular)
        /\ Len(ret.shorts) + Len(ret.regular) = Len(arg)
        /\ \A i \in 1..Len(arg) :
              (arg[i] \in Range(ret.shorts)) # (arg[i] \in Range(ret.regular))

C8_Witness ==
    /\ ret # None
    /\ Len(arg) = 3
    /\ "contentDetails" \notin DOMAIN arg[1]
    /\ DurationOf(arg[2]) = <<"P", "T", "6", "1", "S">>
    /\ DurationOf(arg[3]) = <<"P", "T", "1", "M">>
    /\ ret.shorts = <<arg[1], arg[3]>>
    /\ ret.regular = <<arg[2]>>

(***************************************************************************)
(* show_search_page: the widgets' options and the hard-coded finance data  *)
(***************************************************************************)
SearchTypes == {"Generic Search", "Finance Niche Search"}

FinanceFilters == {"India", "USA", "Both"}

TimeOptions == {"Any", "24 hours", "48 hours", "7 days", "15 days", "1 month"}

SortOptions == {"Views", "Outlier Score"}

FinanceUSA ==
    << "UCV6KDgJskWaEckne5aPA0aQ", "UCxgAuX3XZROujMmGphN_scA",
       "UCGy7SkBjcIAgTiwkXEtPnYg", "UCFBpVaKCC0ajGps1vf0AgBg",
       "UCQglaVhGOBI0BR5S6IJnQPg", "UCQpPo9BNwezg54N9hMFQp6Q",
       "Newmoney", "UC7ZddA__ewP3AtDefjl_tWg" >>

FinanceIndia ==
    << "UCwAdQUuPT6laN-AQR17fe1g", "UCHYubNqqsWGTN2SF-y8jPmQ",
       "UCdUEJABvX8XKu3HyDSczqhA", "UCwVEhEzsjLym_u1he4XWFkg",
       "UCqW8jxh4tH1Z1sWPbkGWL4g", "UCVOTBwF0vnSxMRIbfSE_K_g",
       "UCLQOtbB1COQwjcCEPB2pa8w", "UCTMr5SnqHtCM2lMAI31gtFA",
       "UCkGjGT2B7LoDyL2T4pHsUqw", "UC_eLanNOt5ZiKkZA2Fay8SA",
       "UCtnItzU7q_bA1eoEBjqcVrw", "UCggPd3Vf9ooG2r4I_ZNWBzA",
       "UCWHCXSKASuSzao_pplQ7SPw", "UC2MU9phoTYy5sigZCkrvwiw" >>

\* cid.startswith("UC"): of the hard-coded values only "Newmoney" does not
StartsWithUC(cid) == cid # "Newmoney"

\* a Python list, as opposed to None
PyList(l) == [list |-> l]

finance_channels_of(search_type, finance_filter) ==
    IF search_type = "Finance Niche Search"
    THEN PyList(SelectSeq(CASE finance_filter = "India" -> FinanceIndia
                            [] finance_filter = "USA" -> FinanceUSA
                            [] OTHER -> FinanceIndia \o FinanceUSA,
                          StartsWithUC))
    ELSE None

\* the timedelta subtracted from utcnow(), in hours; None for "Any"
published_after_of(time_filter_option) ==
    CASE time_filter_option = "Any" -> None
      [] time_filter_option = "24 hours" -> [utcnow_minus_hours |-> 24]
      [] time_filter_option = "48 hours" -> [utcnow_minus_hours |-> 48]
      [] time_filter_option = "7 days" -> [utcnow_minus_hours |-> 7 * 24]
      [] time_filter_option = "15 days" -> [utcnow_minus_hours |-> 15 * 24]
      [] time_filter_option = "1 month" -> [utcnow_minus_hours |-> 30 * 24]

(***************************************************************************)
(* str() of the allow-list inside the f-string: "None", or the repr of a   *)
(* list of strings, "['a', 'b']".                                          *)
(***************************************************************************)
RECURSIVE ReprItems(_)
ReprItems(l) ==
    IF l = <<>> THEN ""
    ELSE IF Len(l) = 1 THEN "'" \o l[1] \o "'"
    ELSE "'" \o l[1] \o "', " \o ReprItems(Tail(l))

StrOfChannels(finance_channels) ==
    IF finance_channels = None THEN "None"
    ELSE "[" \o ReprItems(finance_channels.list) \o "]"

\* the key without its last field
cache_key_without_sort(search_type, finance_channels, keyword, time_filter_option, sort_option) ==
    search_type \o "_" \o StrOfChannels(finance_channels) \o "_" \o keyword
        \o "_" \o time_filter_option

\* f"{search_type}_{finance_channels}_{keyword}_{time_filter_option}_{sort_option}"
cache_key_of(search_type, finance_channels, keyword, time_filter_option, sort_option) ==
    search_type \o "_" \o StrOfChannels(finance_channels) \o "_" \o keyword
        \o "_" \o time_filter_option \o "_" \o sort_option

\* the widget values of one script run
Params(search_type, finance_filter, keyword, time_filter_option, sort_option) ==
    [search_type |-> search_type,
     finance_filter |-> IF search_type = "Finance Niche Search"
                        THEN finance_filter ELSE "",
     keyword |-> keyword,
     time_filter_option |-> time_filter_option,
     sort_option |-> sort_option]

KeyOfParams(p) ==
    cache_key_of(p.search_type, finance_channels_of(p.search_type, p.finance_filter),
                 p.keyword, p.time_filter_option, p.sort_option)

(***************************************************************************)
(* json.dumps / json.loads.  The text is a sequence of tokens: the         *)
(* brackets, a member's key, a string (kind "str" or, for a string the     *)
(* model keeps as characters, "text") or a number.  A dict is written in   *)
(* insertion order, which for these payloads is KeyOrder.                  *)
(***************************************************************************)
Tok(k, v) == [k |-> k, v |-> v]

KeyOrder == << "regular", "shorts", "id", "snippet", "channelId", "statistics",
               "viewCount", "videoCount", "contentDetails", "duration",
               "outlier_score" >>

KindOf(key) ==
    CASE key \in {"regular", "shorts"} -> "list"
      [] key \in {"snippet", "statistics", "contentDetails"} -> "dict"
      [] key \in {"id", "channelId"} -> "str"
      [] key \in {"viewCount", "videoCount", "duration"} -> "text"
      [] key = "outlier_score" -> "num"

RECURSIVE DumpsDict(_), DumpsMembers(_, _), DumpsElements(_)

DumpsValue(key, v) ==
    CASE KindOf(key) = "dict" -> DumpsDict(v)
      [] KindOf(key) = "list" ->
            <<Tok("[", "")>> \o DumpsElements(v) \o <<Tok("]", "")>>
      [] OTHER -> <<Tok(KindOf(key), v)>>

DumpsMembers(d, keys) ==
    IF keys = <<>> THEN <<>>
    ELSE IF Head(keys) \in DOMAIN d
        THEN <<Tok("key", Head(keys))>> \o DumpsValue(Head(keys), d[Head(keys)])
                 \o DumpsMembers(d, Tail(keys))
        ELSE DumpsMembers(d, Tail(keys))

DumpsDict(d) == <<Tok("{", "")>> \o DumpsMembers(d, KeyOrder) \o <<Tok("}", "")>>

DumpsElements(l) ==
    IF l = <<>> THEN <<>> ELSE DumpsDict(Head(l)) \o DumpsElements(Tail(l))

json_dumps(data) == DumpsDict(data)

RECURSIVE ParseValue(_, _), ParseMembers(_, _, _), ParseElements(_, _, _)

ParseValue(toks, i) ==
    CASE toks[i].k = "{" -> ParseMembers(toks, i + 1, EmptyDict)
      [] toks[i].k = "[" -> ParseElements(toks, i + 1, <<>>)
      [] OTHER -> [val |-> toks[i].v, next |-> i + 1]

ParseMembers(toks, i, acc) ==
    IF toks[i].k = "}" THEN [val |-> acc, next |-> i + 1]
    ELSE LET r == ParseValue(toks, i + 1)
         IN  ParseMembers(toks, r.next, (toks[i].v :> r.val) @@ acc)

ParseElements(toks, i, acc) ==
    IF toks[i].k = "]" THEN [val |-> acc, next |-> i + 1]
    ELSE LET r == ParseValue(toks, i)
         IN  ParseElements(toks, r.next, Append(acc, r.val))

json_loads(text) == ParseValue(text, 1).val

(***************************************************************************)
(* The cache table.  key is the PRIMARY KEY: REPLACE INTO deletes the row  *)
(* that holds the key, if any, and inserts the new one.  The timestamp     *)
(* column, which nothing reads but the debug listing, is left out.         *)
(***************************************************************************)
\* INSERT INTO a table without the PRIMARY KEY: the rows the table holds stay
InsertInto(table, row) == table \cup {row}

\* REPLACE INTO cache (key, data) with key TEXT PRIMARY KEY
ReplaceInto(table, row) == {r \in table : r.key # row.key} \cup {row}

set_cache(table, key, data) == ReplaceInto(table, [key |-> key, data |-> json_dumps(data)])

\* SELECT data FROM cache WHERE key=?; fetchone()
get_cache(table, key) ==
    LET rows == {r \in table : r.key = key}
    IN  IF rows # {} THEN json_loads((CHOOSE r \in rows : TRUE).data) ELSE None

(***************************************************************************)
(* The sessions table.  id is AUTOINCREMENT: one more than the largest id  *)
(* ever used; no row is ever deleted.                                      *)
(***************************************************************************)
\* a log_session that writes no row
log_nothing(table, key, data) == table

log_session(table, key, data) ==
    Append(table, [id |-> Len(table) + 1, key |-> key, data |-> json_dumps(data)])

\* SELECT * FROM cache; SELECT * FROM sessions
debug_db(cache_table, sessions_table) ==
    [cache_rows |-> cache_table, session_rows |-> sessions_table]

(***************************************************************************)
(* set_cache and get_cache called in any order on a few keys and bundles.  *)
(***************************************************************************)
Scored(video, outlier_score) == video @@ [outlier_score |-> outlier_score]

SampleA == Scored(Video("v1", "UCV6KDgJskWaEckne5aPA0aQ", <<"5", "0">>,
                        <<"P", "T", "2", "M">>), 500)

SampleB == Scored(Video("v2", "UCxgAuX3XZROujMmGphN_scA", <<"2", "0">>,
                        <<"P", "T", "1", "0", "M">>), 1000)

SampleC == Scored(Video("v3", "UCV6KDgJskWaEckne5aPA0aQ", Absent, Absent), 0)

SampleBundles ==
    { [regular |-> <<>>, shorts |-> <<>>],
      [regular |-> <<SampleA, SampleB>>, shorts |-> <<SampleC>>],
      [regular |-> <<SampleB, SampleA>>, shorts |-> <<SampleC>>],
      [regular |-> <<SampleB>>, shorts |-> <<SampleC, SampleA>>],
      [regular |-> <<>>, shorts |-> <<SampleA, SampleC>>] }

SampleKeys ==
    { KeyOfParams(Params("Generic Search", "", "a", "Any", "Views")),
      KeyOfParams(Params("Generic Search", "", "a", "Any", "Outlier Score")),
      KeyOfParams(Params("Finance Niche Search", "USA", "a", "7 days", "Views")) }

InitCache ==
    /\ cache = {}
    /\ sessions = <<>>
    /\ session_state = [page |-> "search", results |-> None, selected_video |-> None]
    /\ run = None
    /\ last_put = [k \in SampleKeys |-> None]
    /\ arg = [op |-> "none", key |-> ""]
    /\ ret = None

CallSetCache ==
    \E key \in SampleKeys, data \in SampleBundles :
        /\ cache' = set_cache(cache, key, data)
        /\ last_put' = [last_put EXCEPT ![key] = data]
        /\ arg' = [op |-> "set_cache", key |-> key]
        /\ ret' = None
        /\ UNCHANGED <<sessions, session_state, run>>

CallGetCache ==
    \E key \in SampleKeys :
        /\ arg' = [op |-> "get_cache", key |-> key]
        /\ ret' = get_cache(cache, key)
        /\ UNCHANGED <<cache, sessions, session_state, run, last_put>>

NextCache == CallSetCache \/ CallGetCache

SpecCache == InitCache /\ [][NextCache]_vars

(***************************************************************************)
(* C1: after any sequence of set_cache calls the cache table holds at most *)
(* one row per key, and get_cache(k) returns the data of the latest        *)
(* set_cache for k, with both lists in the order they were put, or None if *)
(* k was never put.                                                        *)
(***************************************************************************)
C1_LastWriteWins ==
    /\ \A k \in SampleKeys : Cardinality({r \in cache : r.key = k}) <= 1
    /\ \A k \in SampleKeys : get_cache(cache, k) = last_put[k]
    /\ arg.op = "get_cache" => ret = last_put[arg.key]

C1_Witness ==
    /\ arg.op = "get_cache"
    /\ ret = [regular |-> <<SampleB, SampleA>>, shorts |-> <<SampleC>>]
    /\ \E k \in SampleKeys : k # arg.key /\ last_put[k] # None /\ last_put[k] # ret
    /\ Cardinality(cache) = 2

(***************************************************************************)
(* The YouTube Data API as the code sees it.  A provider is one script     *)
(* run's view of the service:                                              *)
(*   search    what search().list(...).execute() answers per channelId     *)
(*             ("*" for the search without channelId): a response, or an   *)
(*             HttpError;                                                  *)
(*   videos    the video resources the service knows, by id;               *)
(*   channels  the channel resources the service knows, by id;             *)
(*   fail_at   the number of the API call of this run at which the service *)
(*             cannot be reached (the transport raises, not an HttpError), *)
(*             0 for never.                                                *)
(* A function that calls the API takes the requests made so far (log) and  *)
(* returns them extended, with raised = TRUE when an exception leaves it.  *)
(***************************************************************************)
Ok(response) == [status |-> "ok", response |-> response]

HttpError == [status |-> "HttpError", response |-> EmptyDict]

Unavailable == [status |-> "unavailable", response |-> EmptyDict]

RECURSIVE Known(_, _)
Known(ids, resources) ==
    IF ids = <<>> THEN <<>>
    ELSE IF Head(ids) \in DOMAIN resources
        THEN <<resources[Head(ids)]>> \o Known(Tail(ids), resources)
        ELSE Known(Tail(ids), resources)

\* request.execute(), as the n-th API call of the run
Execute(provider, request, n) ==
    IF provider.fail_at = n THEN Unavailable
    ELSE CASE request.api = "search" -> provider.search[request.channelId]
           [] request.api = "videos" ->
                 Ok([items |-> Known(request.id, provider.videos)])
           [] request.api = "channels" ->
                 Ok([items |-> Known(request.id, provider.channels)])

SearchRequest(channel_id, query, published_after, max_results) ==
    [api |-> "search", channelId |-> channel_id, q |-> query, part |-> "id,snippet",
     maxResults |-> max_results, type |-> "video", publishedAfter |-> published_after]

PerChannelMax == 10

GenericMax == 20

\* the loop body without its try/except: an HttpError leaves youtube_search
SearchOneChannelUnhandled(st, channel_id, query, published_after, provider) ==
    LET request == SearchRequest(channel_id, query, published_after, PerChannelMax)
        out == Execute(provider, request, Len(st.log) + 1)
        sent == [st EXCEPT !.log = Append(@, request)]
    IN  IF out.status = "ok"
        THEN [sent EXCEPT !.value = @ \o Get(out.response, "items", <<>>)]
        ELSE [sent EXCEPT !.raised = TRUE]

\* the body of "for channel_id in finance_channels", with its try/except HttpError
SearchOneChannel(st, channel_id, query, published_after, provider) ==
    LET request == SearchRequest(channel_id, query, published_after, PerChannelMax)
        out == Execute(provider, request, Len(st.log) + 1)
        sent == [st EXCEPT !.log = Append(@, request)]
    IN  CASE out.status = "ok" ->
                [sent EXCEPT !.value = @ \o Get(out.response, "items", <<>>)]
          [] out.status = "HttpError" ->
                [sent EXCEPT !.errors = Append(@, channel_id)]
          [] OTHER -> [sent EXCEPT !.raised = TRUE]

RECURSIVE SearchChannels(_, _, _, _, _)
SearchChannels(st, channels, query, published_after, provider) ==
    IF channels = <<>> \/ st.raised THEN st
    ELSE SearchChannels(
             SearchOneChannel(st, Head(channels), query, published_after, provider),
             Tail(channels), query, published_after, provider)

\* the else branch: one search, no handler around it
SearchAll(st, query, published_after, provider) ==
    LET request == SearchRequest("*", query, published_after, GenericMax)
        out == Execute(provider, request, Len(st.log) + 1)
        sent == [st EXCEPT !.log = Append(@, request)]
    IN  IF out.status = "ok"
        THEN [sent EXCEPT !.value = Get(out.response, "items", <<>>)]
        ELSE [sent EXCEPT !.raised = TRUE]

\* "if finance_channels:" is false for None and for the empty list
Truthy(finance_channels) ==
    finance_channels # None /\ finance_channels.list # <<>>

youtube_search(query, published_after, finance_channels, provider, log) ==
    LET st == [value |-> <<>>, log |-> log, errors |-> <<>>, raised |-> FALSE]
    IN  IF Truthy(finance_channels)
        THEN SearchChannels(st, finance_channels.list, query, published_after, provider)
        ELSE SearchAll(st, query, published_after, provider)

(***************************************************************************)
(* get_video_details / get_channel_details: the same loop over             *)
(* range(0, len(ids), 50), one request per slice ids[i:i+50].  The request *)
(* carries the slice itself where the code sends ",".join(slice).          *)
(***************************************************************************)
BatchSize == 50

Min(a, b) == IF a <= b THEN a ELSE b

\* a slice one identifier longer: ids[i:i+51]
SliceOneMore(ids, i) == SubSeq(ids, i + 1, Min(i + BatchSize + 1, Len(ids)))

\* ids[i:i+50], i counted from 0
Slice(ids, i) == SubSeq(ids, i + 1, Min(i + BatchSize, Len(ids)))

DetailRequest(api, batch_ids) ==
    [api |-> api, id |-> batch_ids,
     part |-> IF api = "videos" THEN "statistics,contentDetails,snippet"
              ELSE "statistics"]

RECURSIVE FetchBatches(_, _, _, _, _)
FetchBatches(st, api, ids, i, provider) ==
    IF i >= Len(ids) \/ st.raised THEN st
    ELSE LET request == DetailRequest(api, Slice(ids, i))
             out == Execute(provider, request, Len(st.log) + 1)
             sent == [st EXCEPT !.log = Append(@, request)]
         IN  FetchBatches(
                 IF out.status = "ok"
                 THEN [sent EXCEPT !.value = @ \o Get(out.response, "items", <<>>)]
                 ELSE [sent EXCEPT !.raised = TRUE],
                 api, ids, i + BatchSize, provider)

get_video_details(video_ids, provider, log) ==
    FetchBatches([value |-> <<>>, log |-> log, errors |-> <<>>, raised |-> FALSE],
                 "videos", video_ids, 0, provider)

get_channel_details(channel_ids, provider, log) ==
    FetchBatches([value |-> <<>>, log |-> log, errors |-> <<>>, raised |-> FALSE],
                 "channels", channel_ids, 0, provider)

(***************************************************************************)
(* Search results as search().list returns them.                           *)
(***************************************************************************)
SearchItem(videoId, channelId) ==
    [id |-> [kind |-> "youtube#video", videoId |-> videoId],
     snippet |-> [channelId |-> channelId]]

\* a result whose id carries no videoId
ItemWithoutVideoId(channelId) ==
    [id |-> [kind |-> "youtube#video"], snippet |-> [channelId |-> channelId]]

(***************************************************************************)
(* youtube_search applied to every allow-list over three channels (and to  *)
(* None), against every provider behaviour per channel.                    *)
(***************************************************************************)
Channels3 == SubSeq(FinanceUSA, 1, 3)

VideoOf(channelId) ==
    CASE channelId = FinanceUSA[1] -> "v1"
      [] channelId = FinanceUSA[2] -> "v2"
      [] channelId = FinanceUSA[3] -> "v3"
      [] OTHER -> "v4"

SearchOutcomes(channelId) ==
    { HttpError,
      Ok(EmptyDict),
      Ok([items |-> <<SearchItem(VideoOf(channelId), channelId),
                      ItemWithoutVideoId(channelId)>>]) }

SearchTargets == Range(Channels3) \cup {"*"}

SearchBehaviours ==
    { f \in [SearchTargets -> UNION {SearchOutcomes(c) : c \in SearchTargets}] :
        \A c \in SearchTargets : f[c] \in SearchOutcomes(c) }

IsInjective(s) == \A i, j \in 1..Len(s) : s[i] = s[j] => i = j

AllowLists ==
    { s \in UNION {[1..n -> Range(Channels3)] : n \in 1..Len(Channels3)} :
        IsInjective(s) }

MaxFailAt == 3

InitSearch ==
    /\ UnsetVars
    /\ \E fc \in {None} \cup {PyList(l) : l \in AllowLists},
          search \in SearchBehaviours, fail_at \in 0..MaxFailAt :
            arg = [finance_channels |-> fc,
                   provider |-> [search |-> search, videos |-> EmptyDict,
                                 channels |-> EmptyDict, fail_at |-> fail_at]]
    /\ ret = None

CallYoutubeSearch ==
    /\ ret = None
    /\ ret' = youtube_search("a", None, arg.finance_channels, arg.provider, <<>>)
    /\ UNCHANGED <<cache, sessions, session_state, run, last_put, arg>>

SpecSearch == InitSearch /\ [][CallYoutubeSearch]_vars

(***************************************************************************)
(* C5: in allow-list mode, whatever channels answer with an HttpError,     *)
(* youtube_search queries every channel of the list, in order, returns the *)
(* concatenation of the items of the channels that answered, and does not  *)
(* raise.  (It raises only when the service cannot be reached at all.)     *)
(***************************************************************************)
RECURSIVE ItemsOfAnswering(_, _)
ItemsOfAnswering(channels, search) ==
    IF channels = <<>> THEN <<>>
    ELSE (IF search[Head(channels)].status = "ok"
          THEN Get(search[Head(channels)].response, "items", <<>>) ELSE <<>>)
         \o ItemsOfAnswering(Tail(channels), search)

Reachable(p, n) == p.fail_at = 0 \/ p.fail_at > n

HasVideoId(item) == Get(item.id, "videoId", "") # ""

RECURSIVE video_ids_of(_)
video_ids_of(results) ==
    IF results = <<>> THEN <<>>
    ELSE (IF HasVideoId(Head(results)) THEN <<Head(results).id.videoId>> ELSE <<>>)
         \o video_ids_of(Tail(results))

channel_id_set(results) == {results[i].snippet.channelId : i \in 1..Len(results)}

ListsOfSet(S) == {s \in [1..Cardinality(S) -> S] : IsInjective(s)}

channel_ids_of(results) == ListsOfSet(channel_id_set(results))

(***************************************************************************)
(* The extraction applied to every list of up to MaxItems search results.  *)
(***************************************************************************)
SampleItems ==
    { SearchItem("v1", FinanceUSA[1]), SearchItem("v2", FinanceUSA[1]),
      SearchItem("v3", FinanceUSA[2]), SearchItem("", FinanceUSA[2]),
      ItemWithoutVideoId(FinanceUSA[3]) }

MaxItems == 3

InitIds ==
    /\ UnsetVars
    /\ arg \in UNION {[1..n -> SampleItems] : n \in 0..MaxItems}
    /\ ret = None

ExtractIds ==
    /\ ret = None
    /\ \E channel_ids \in channel_ids_of(arg) :
          ret' = [video_ids |-> video_ids_of(arg), channel_ids |-> channel_ids]
    /\ UNCHANGED <<cache, sessions, session_state, run, last_put, arg>>

SpecIds == InitIds /\ [][ExtractIds]_vars

(***************************************************************************)
(* C6: the video identifiers handed to the detail fetch are pairwise       *)
(* distinct, so are the channel identifiers, and a search result without a *)
(* video identifier contributes none.                                      *)
(***************************************************************************)
C6_DistinctIds ==
    ret # None =>
        /\ IsInjective(ret.video_ids)
        /\ IsInjective(ret.channel_ids)
        /\ Range(ret.video_ids) =
              {arg[i].id.videoId : i \in {j \in 1..Len(arg) : HasVideoId(arg[j])}}

(***************************************************************************)
(* get_video_details and get_channel_details applied to every identifier   *)
(* list 1..n, n up to MaxIds, against a service that knows all, none or    *)
(* every second one of the identifiers.                                    *)
(***************************************************************************)
MaxIds == 120

Resource(id) == [id |-> id]

KnownSets(n) == {1..n, {}, {i \in 1..n : i % 2 = 0}}

InitBatch ==
    /\ UnsetVars
    /\ \E n \in 0..MaxIds, fail_at \in 0..MaxFailAt :
         \E known \in KnownSets(n) :
            LET resources == [i \in known |-> Resource(i)]
            IN  arg = [ids |-> [i \in 1..n |-> i],
                       provider |-> [search |-> EmptyDict, videos |-> resources,
                                     channels |-> resources, fail_at |-> fail_at]]
    /\ ret = None

CallGetVideoDetails ==
    /\ ret = None
    /\ ret' = get_video_details(arg.ids, arg.provider, <<>>)
    /\ UNCHANGED <<cache, sessions, session_state, run, last_put, arg>>

CallGetChannelDetails ==
    /\ ret = None
    /\ ret' = get_channel_details(arg.ids, arg.provider, <<>>)
    /\ UNCHANGED <<cache, sessions, session_state, run, last_put, arg>>

NextBatch == CallGetVideoDetails \/ CallGetChannelDetails

SpecBatch == InitBatch /\ [][NextBatch]_vars

(***************************************************************************)
(* C7: for a list of n identifiers the detail fetch makes ceil(n/50)       *)
(* requests, each with 1 to 50 identifiers, which taken in order are the   *)
(* input list, and returns the resource of every identifier the service    *)
(* knows; 120 identifiers go out as 50, 50 and 20.                         *)
(***************************************************************************)
RECURSIVE Flatten(_)
Flatten(ss) == IF ss = <<>> THEN <<>> ELSE Head(ss) \o Flatten(Tail(ss))

C7_Batching ==
    (ret # None /\ ~ret.raised) =>
        LET n == Len(arg.ids)
            sent == [i \in 1..Len(ret.log) |-> ret.log[i].id]
        IN  /\ Len(sent) = (n + 49) \div 50
            /\ \A i \in 1..Len(sent) : Len(sent[i]) \in 1..50
            /\ Flatten(sent) = arg.ids
            /\ \A i \in 1..Len(ret.log) :
                  ret.log[i].api = ret.log[1].api
            /\ ret.value = [i \in 1..Len(ret.value) |-> Resource(ret.value[i].id)]
            /\ {ret.value[i].id : i \in 1..Len(ret.value)}
                    = DOMAIN arg.provider.videos
            /\ Len(ret.value) = Cardinality(DOMAIN arg.provider.videos)
            /\ n = 120 => [i \in 1..Len(sent) |-> Len(sent[i])] = <<50, 50, 20>>

C7_Witness ==
    /\ ret # None /\ ~ret.raised
    /\ Len(arg.ids) = 120
    /\ Len(ret.log) = 3
    /\ Len(ret.log[3].id) = 20
    /\ Len(ret.value) = 120

(***************************************************************************)
(* compute_outlier.  The score is kept in hundredths (round(x, 2) * 100);  *)
(* the quotient is taken exactly and rounded half to even, where Python    *)
(* rounds the nearest double.  int() of a non-numeric string and the       *)
(* division by a zero video count raise, and the handler returns 0.        *)
(***************************************************************************)
RoundHalfEven(num, den) ==
    LET q == num \div den
        r == num % den
    IN  IF 2 * r < den THEN q
        ELSE IF 2 * r > den THEN q + 1
        ELSE IF q % 2 = 0 THEN q ELSE q + 1

compute_outlier(video_views, channel_total_views, channel_video_count) ==
    IF ~IsNumeric(channel_total_views) \/ ~IsNumeric(channel_video_count) THEN 0
    ELSE IF IntOf(channel_video_count) = 0 THEN 0
    ELSE IF IntOf(channel_total_views) > 0
        THEN RoundHalfEven(100 * video_views * IntOf(channel_video_count),
                           IntOf(channel_total_views))
        ELSE 0

\* int(x.get("statistics", {}).get("viewCount", 0))
ViewCountOf(video) ==
    IntOf(Get(Get(video, "statistics", EmptyDict), "viewCount", <<"0">>))

\* {channel["id"]: channel["statistics"] for channel in channel_details};
\* of two records with one id the later one stays
channel_stats_of(channel_details) ==
    LET Last(id) == CHOOSE i \in 1..Len(channel_details) :
                        /\ channel_details[i].id = id
                        /\ \A j \in (i + 1)..Len(channel_details) :
                              channel_details[j].id # id
    IN  [id \in {channel_details[i].id : i \in 1..Len(channel_details)} |->
            channel_details[Last(id)].statistics]

\* the body of "for video in video_details"
WithOutlierScore(video, channel_stats) ==
    LET channel_id == Get(Get(video, "snippet", EmptyDict), "channelId", "")
        ch_stats == Get(channel_stats, channel_id, EmptyDict)
        total_views == Get(ch_stats, "viewCount", <<"0">>)
        video_count == Get(ch_stats, "videoCount", <<"1">>)
    IN  [outlier_score |-> compute_outlier(ViewCountOf(video), total_views, video_count)]
            @@ video

process_videos(video_details, channel_stats) ==
    [i \in 1..Len(video_details) |-> WithOutlierScore(video_details[i], channel_stats)]

(***************************************************************************)
(* list.sort(key=..., reverse=True): descending, and stable (videos with   *)
(* equal keys stay in their order), here as an insertion sort.             *)
(***************************************************************************)
SortKey(video, sort_option) ==
    IF sort_option = "Views" THEN ViewCountOf(video)
    ELSE Get(video, "outlier_score", 0)

\* the insertion in front of the videos of equal key: a sort that is not stable
InsertBeforeEqual(sorted, x, sort_option) ==
    LET k == Cardinality({i \in 1..Len(sorted) :
                 SortKey(sorted[i], sort_option) > SortKey(x, sort_option)})
    IN  SubSeq(sorted, 1, k) \o <<x>> \o SubSeq(sorted, k + 1, Len(sorted))

\* x goes after every video whose key is at least its own
InsertDescending(sorted, x, sort_option) ==
    LET k == Cardinality({i \in 1..Len(sorted) :
                 SortKey(sorted[i], sort_option) >= SortKey(x, sort_option)})
    IN  SubSeq(sorted, 1, k) \o <<x>> \o SubSeq(sorted, k + 1, Len(sorted))

RECURSIVE SortLoop(_, _, _)
SortLoop(sorted, rest, sort_option) ==
    IF rest = <<>> THEN sorted
    ELSE SortLoop(InsertDescending(sorted, Head(rest), sort_option), Tail(rest),
                  sort_option)

sort_descending(videos, sort_option) == SortLoop(<<>>, videos, sort_option)

\* classify, sort both lists, {"regular": regular_videos, "shorts": shorts}
bundle_of(processed_videos, sort_option) ==
    LET classified == classify_videos(processed_videos)
    IN  [regular |-> sort_descending(classified.regular, sort_option),
         shorts |-> sort_descending(classified.shorts, sort_option)]

\* a lookup whose result is never used
IsHitNever(cached_data) == FALSE

\* "if cached_data:": a dict is true when it has a key
IsHit(cached_data) == cached_data # None /\ DOMAIN cached_data # {}

(***************************************************************************)
(* The app.  One action is one script run (main()), started by a click.    *)
(* init_db() creates both tables if they do not exist and the session      *)
(* state gets its defaults: Init is the state after the first of these.    *)
(***************************************************************************)
AppChannel1 == FinanceUSA[1]

AppChannel2 == FinanceUSA[2]

\* what the service holds: video resources in the order the search lists
\* them, the channel resources it knows (not AppChannel2), and a search
\* result without a videoId
Catalogue ==
    [videos |-> << Video("v3", AppChannel1, Absent, <<"P", "T", "1", "M">>),
                   Video("v1", AppChannel1, <<"2", "0">>, <<"P", "T", "3", "0", "S">>),
                   Video("v2", AppChannel2, <<"2", "0">>, Absent),
                   Video("v4", AppChannel2, <<"2", "0">>, <<"P", "T", "2", "M">>),
                   Video("v5", AppChannel1, <<"2", "0">>, <<"P", "T", "6", "1", "S">>) >>,
     channels |->
        << [id |-> AppChannel1,
            statistics |-> [viewCount |-> <<"4", "0">>, videoCount |-> <<"2">>]] >>,
     extra |-> <<ItemWithoutVideoId(AppChannel2)>>]

NoCatalogue == [videos |-> <<>>, channels |-> <<>>, extra |-> <<>>]

ById(resources) ==
    [id \in {resources[i].id : i \in 1..Len(resources)} |->
        resources[CHOOSE i \in 1..Len(resources) : resources[i].id = id]]

ItemsOf(catalogue, target) ==
    LET all == [i \in 1..Len(catalogue.videos) |->
                   SearchItem(catalogue.videos[i].id,
                              catalogue.videos[i].snippet.channelId)]
                   \o catalogue.extra
    IN  IF target = "*" THEN all
        ELSE SelectSeq(all, LAMBDA item : item.snippet.channelId = target)

AppTargets == Range(SelectSeq(FinanceUSA, StartsWithUC)) \cup {"*"}

\* the service with this catalogue; the targets in failing answer HttpError
Service(catalogue, failing, fail_at) ==
    [search |-> [t \in AppTargets |->
                    IF t \in failing THEN HttpError
                    ELSE IF ItemsOf(catalogue, t) = <<>> THEN Ok(EmptyDict)
                    ELSE Ok([items |-> ItemsOf(catalogue, t)])],
     videos |-> ById(catalogue.videos),
     channels |-> ById(catalogue.channels),
     fail_at |-> fail_at]

\* the number of the call that fails: none, the first search, the video
\* request or the channel request, which follow the one or seven searches
FailPoints(searches) == {0, 1, searches + 1, searches + 2}

\* the service that answers every call
Answering == Service(Catalogue, {}, 0)

\* the service that finds nothing and answers the search in one channel
\* with an HttpError
FindingNothing == Service(NoCatalogue, {AppChannel1}, 0)

ProvidersFailingAt(points) ==
    { Service(Catalogue, {}, k) : k \in points } \cup {FindingNothing}

GenericProviders == ProvidersFailingAt(FailPoints(1))

FinanceProviders == ProvidersFailingAt(FailPoints(Len(SelectSeq(FinanceUSA, StartsWithUC))))

\* one fault per run at most: with a failing sqlite3 call the service answers
AppProviders(search_type, db_fault) ==
    IF db_fault # "none" THEN {Answering}
    ELSE IF search_type = "Generic Search" THEN GenericProviders
    ELSE FinanceProviders

\* the sqlite3 call of the run that raises, if any
DbFaults == {"none", "get_cache", "set_cache", "log_session"}

AppParams ==
    { Params(t, "USA", "a", tf, so) :
        t \in SearchTypes, tf \in {"7 days"}, so \in SortOptions }

\* a bound on the rows of the cache table
MaxRows == 2

NoRun ==
    [kind |-> "none", key |-> "", sort_option |-> "", hit |-> FALSE,
     n_results |-> 0, api_calls |-> 0, provider_raised |-> FALSE,
     db_raised |-> "none", displayed |-> None, error |-> FALSE, listing |-> None]

InitApp ==
    /\ cache = {}
    /\ sessions = <<>>
    /\ session_state = [page |-> "search", results |-> None, selected_video |-> None]
    /\ run = NoRun
    /\ last_put = [k \in {KeyOfParams(p) : p \in AppParams} |-> None]
    /\ arg = None
    /\ ret = None

\* an exception leaves the script: nothing further is written or displayed
Raise(r) == [r EXCEPT !.error = TRUE]

(***************************************************************************)
(* if st.button("Search"): the whole handler.                              *)
(***************************************************************************)
Search ==
    \E p \in AppParams, db_fault \in DbFaults :
      \E provider \in AppProviders(p.search_type, db_fault) :
        LET cache_key == KeyOfParams(p)
            finance_channels == finance_channels_of(p.search_type, p.finance_filter)
            published_after == published_after_of(p.time_filter_option)
            this == [NoRun EXCEPT !.kind = "search", !.key = cache_key,
                                  !.sort_option = p.sort_option]
            cached_data == get_cache(cache, cache_key)
            results == youtube_search(p.keyword, published_after, finance_channels,
                                      provider, <<>>)
            video_ids == video_ids_of(results.value)
            video_details == get_video_details(video_ids, provider, results.log)
        IN  /\ UNCHANGED <<arg, ret>>
            /\ IF db_fault = "get_cache"
               THEN /\ run' = Raise([this EXCEPT !.db_raised = "get_cache"])
                    /\ UNCHANGED <<cache, sessions, session_state, last_put>>
               ELSE IF IsHit(cached_data)
               THEN /\ session_state' = [session_state EXCEPT !.results = cached_data]
                    /\ run' = [this EXCEPT !.hit = TRUE, !.displayed = cached_data]
                    /\ UNCHANGED <<cache, sessions, last_put>>
               ELSE IF results.raised
               THEN /\ run' = Raise([this EXCEPT !.provider_raised = TRUE,
                                                 !.api_calls = Len(results.log)])
                    /\ UNCHANGED <<cache, sessions, session_state, last_put>>
               ELSE IF results.value = <<>>
               THEN /\ run' = [this EXCEPT !.api_calls = Len(results.log)]
                    /\ UNCHANGED <<cache, sessions, session_state, last_put>>
               ELSE IF video_details.raised
               THEN /\ run' = Raise([this EXCEPT !.provider_raised = TRUE,
                                                 !.n_results = Len(results.value),
                                                 !.api_calls = Len(video_details.log)])
                    /\ UNCHANGED <<cache, sessions, session_state, last_put>>
               ELSE \E channel_ids \in channel_ids_of(results.value) :
                    LET channel_details ==
                            get_channel_details(channel_ids, provider, video_details.log)
                        channel_stats == channel_stats_of(channel_details.value)
                        processed_videos ==
                            process_videos(video_details.value, channel_stats)
                        bundle == bundle_of(processed_videos, p.sort_option)
                        done == [this EXCEPT !.n_results = Len(results.value),
                                             !.api_calls = Len(channel_details.log)]
                    IN  IF channel_details.raised
                        THEN /\ run' = Raise([done EXCEPT !.provider_raised = TRUE])
                             /\ UNCHANGED <<cache, sessions, session_state, last_put>>
                        ELSE /\ session_state' = [session_state EXCEPT !.results = bundle]
                             /\ IF db_fault = "set_cache"
                                THEN /\ run' = Raise([done EXCEPT !.db_raised = "set_cache"])
                                     /\ UNCHANGED <<cache, sessions, last_put>>
                                ELSE /\ Cardinality(cache) < MaxRows
                                     /\ cache' = set_cache(cache, cache_key, bundle)
                                     /\ last_put' =
                                           [last_put EXCEPT ![cache_key] =
                                               [data |-> bundle,
                                                source_order |->
                                                   [i \in 1..Len(video_details.value) |->
                                                       video_details.value[i].id]]]
                                     /\ IF db_fault = "log_session"
                                        THEN /\ run' = Raise([done EXCEPT
                                                         !.db_raised = "log_session"])
                                             /\ UNCHANGED sessions
                                        ELSE /\ sessions' =
                                                   log_session(sessions, cache_key, bundle)
                                             /\ run' = [done EXCEPT !.displayed = bundle]

(***************************************************************************)
(* if st.button("Show DB Debug Info")                                      *)
(***************************************************************************)
ShowDebug ==
    /\ run' = [NoRun EXCEPT !.kind = "debug", !.listing = debug_db(cache, sessions)]
    /\ UNCHANGED <<cache, sessions, session_state, last_put, arg, ret>>

(***************************************************************************)
(* A click on an "Analyze Thumbnail" button of the displayed results.  The *)
(* buttons are created by display_results, which runs only inside          *)
(* if st.button("Search"); in the run the click starts, that button is not *)
(* pressed, display_results is not called, no Analyze button is evaluated  *)
(* and the page stays "search".                                            *)
(***************************************************************************)
ClickAnalyze ==
    /\ run.displayed # None
    /\ run.displayed.regular # <<>> \/ run.displayed.shorts # <<>>
    /\ run' = [NoRun EXCEPT !.kind = "navigate"]
    /\ UNCHANGED <<cache, sessions, session_state, last_put, arg, ret>>

NextApp == Search \/ ShowDebug \/ ClickAnalyze

SpecApp == InitApp /\ [][NextApp]_vars

(***************************************************************************)
(* C3: when log_session raises during a Search, the cache row of the key   *)
(* has been written, the bundle is still displayed and no error leaves the *)
(* handler.                                                                *)
(***************************************************************************)
C3_LogFailureIsolated ==
    (run.kind = "search" /\ run.db_raised = "log_session") =>
        /\ \E row \in cache : row.key = run.key
        /\ run.displayed # None
        /\ run.displayed = session_state.results
        /\ ~run.error

(***************************************************************************)
(* C4, as claimed: every search that delivers a bundle appends exactly one *)
(* session-log entry with the request's key, a repeated search included.   *)
(***************************************************************************)
C4_EveryDeliveredSearchLogged ==
    [][(run'.kind = "search" /\ run'.displayed # None) =>
            /\ Len(sessions') = Len(sessions) + 1
            /\ sessions'[Len(sessions')].key = run'.key]_vars

(***************************************************************************)
(* C4, amended: a Search appends one session-log entry, with the request's *)
(* key and bundle, exactly when it misses the cache, builds a bundle and   *)
(* neither sqlite3 write raises; any other Search, a repeated one served   *)
(* from the cache included, appends nothing, and no two entries share a    *)
(* key.                                                                    *)
(***************************************************************************)
Stored(r) ==
    /\ r.kind = "search" /\ ~r.hit /\ r.n_results > 0
    /\ ~r.provider_raised /\ r.db_raised = "none"

C4_OneEntryPerStoredSearch ==
    [][run'.kind = "search" =>
            /\ IF Stored(run')
               THEN sessions' = Append(sessions,
                        [id |-> Len(sessions) + 1, key |-> run'.key,
                         data |-> json_dumps(run'.displayed)])
               ELSE sessions' = sessions
            /\ \A i, j \in 1..Len(sessions') :
                  sessions'[i].key = sessions'[j].key => i = j]_vars

C4_Witness ==
    /\ run.kind = "search" /\ run.hit
    /\ run.displayed # None
    /\ Len(sessions) = 1
    /\ sessions[1].key = run.key

(***************************************************************************)
(* C9: the bundle a Search delivers, computed or read from the cache, has  *)
(* each list in descending order of the key of the request's sort          *)
(* selector, videos with equal keys in the order the provider returned     *)
(* them, and a bundle read from the cache is the bundle that was stored.   *)
(***************************************************************************)
ExpectedKey(video, sort_option) ==
    IF sort_option = "Views"
    THEN (IF "statistics" \in DOMAIN video THEN IntOf(video.statistics.viewCount) ELSE 0)
    ELSE video.outlier_score

PositionIn(order, id) == CHOOSE i \in 1..Len(order) : order[i] = id

C9_DeliveredSorted ==
    (run.kind = "search" /\ run.displayed # None) =>
        LET put == last_put[run.key]
            Precedes(x, y) ==
                \/ ExpectedKey(x, run.sort_option) > ExpectedKey(y, run.sort_option)
                \/ /\ ExpectedKey(x, run.sort_option) = ExpectedKey(y, run.sort_option)
                   /\ PositionIn(put.source_order, x.id) < PositionIn(put.source_order, y.id)
        IN  /\ put # None
            /\ run.displayed = put.data
            /\ \A list \in {run.displayed.regular, run.displayed.shorts} :
                  \A i, j \in 1..Len(list) : i < j => Precedes(list[i], list[j])
            /\ Len(run.displayed.regular) + Len(run.displayed.shorts)
                  = Len(put.source_order)

C9_Witness ==
    /\ run.kind = "search" /\ run.hit
    /\ run.sort_option = "Outlier Score"
    /\ Len(run.displayed.shorts) = 3
    /\ run.displayed.shorts[2].outlier_score = run.displayed.shorts[3].outlier_score
    /\ ViewCountOf(run.displayed.shorts[2]) < ViewCountOf(run.displayed.shorts[3])
    /\ Len(run.displayed.regular) = 2

(***************************************************************************)
(* C10: the cache table and the session log change only in a Search that   *)
(* misses the cache, finds results and completes every provider call.  A   *)
(* Search whose key is cached makes no provider call and writes nothing; a *)
(* Search that finds nothing or whose provider call raises, the debug      *)
(* listing and a navigation click leave both tables as they are.           *)
(***************************************************************************)
C10_WritesOnlyOnCompletedMiss ==
    [][LET changed == cache' # cache \/ sessions' # sessions
           cached == \E row \in cache : row.key = run'.key
       IN  /\ changed =>
                /\ run'.kind = "search" /\ ~run'.hit /\ ~cached
                /\ run'.n_results > 0 /\ ~run'.provider_raised
           /\ (run'.kind = "search" /\ cached /\ run'.db_raised = "none") =>
                run'.hit /\ run'.api_calls = 0 /\ ~changed
           /\ (run'.kind = "search" /\ ~run'.hit
                    /\ (run'.n_results = 0 \/ run'.provider_raised)) => ~changed
           /\ run'.kind \in {"debug", "navigate"} => ~changed]_vars

C10_Witness ==
    /\ run.kind = "search" /\ run.hit /\ run.api_calls = 0
    /\ \E row \in cache : row.key = run.key
    /\ Len(sessions) = 1

(***************************************************************************)
(* The cache key of every combination of the widgets' values, the query    *)
(* text drawn from texts that contain the delimiter, an option or "None".  *)
(***************************************************************************)
Keywords == {"", "a", "_", "a_Any", "Any_Views", "a_7 days_Views", "None", "a_None_a"}

KeyParams ==
    { Params(t, f, kw, tf, so) :
        t \in SearchTypes, f \in FinanceFilters, kw \in Keywords,
        tf \in TimeOptions, so \in SortOptions }

InitKey ==
    /\ UnsetVars
    /\ arg = None
    /\ ret = None

\* the first two lines of if st.button("Search")
DeriveKey ==
    \E p \in KeyParams :
        /\ arg' = p
        /\ ret' = [cache_key |-> KeyOfParams(p)]
        /\ UNCHANGED <<cache, sessions, session_state, run, last_put>>

SpecKey == InitKey /\ [][DeriveKey]_vars

(***************************************************************************)
(* C2: the cache key identifies the search configuration: a request has    *)
(* the key of another request exactly when search type, allow-list, query  *)
(* text, timeframe and sort selector are all the same.                     *)
(***************************************************************************)
SameConfiguration(p, q) ==
    /\ p.search_type = q.search_type
    /\ finance_channels_of(p.search_type, p.finance_filter)
          = finance_channels_of(q.search_type, q.finance_filter)
    /\ p.keyword = q.keyword
    /\ p.time_filter_option = q.time_filter_option
    /\ p.sort_option = q.sort_option

C2_KeyIdentifiesConfiguration ==
    ret # None =>
        \A q \in KeyParams :
            (KeyOfParams(q) = ret.cache_key) <=> SameConfiguration(arg, q)

C2_Witness ==
    /\ ret # None
    /\ arg.keyword = "a_Any"
    /\ arg.time_filter_option = "7 days"
    /\ arg.search_type = "Finance Niche Search"
    /\ arg.finance_filter = "Both"

=============================================================================
